---- MODULE Spec2Model ----
(***************************************************************************)
(* Continuity Index v2.0 toolkit (src/CIv2.py): calculate_ci,              *)
(* interpret_ci_minimal, classify_regime and explain_regime.               *)
(*                                                                         *)
(* The toolkit computes on Python floats.  A float is modelled as an IEEE  *)
(* 754 binary floating-point datum: NaN, signed infinity, or a signed      *)
(* finite value m * 2^e with round-to-nearest-even arithmetic, gradual     *)
(* underflow and overflow to infinity.  The model keeps that structure at  *)
(* the binary16 width (11-bit significand, exponents -14..15), the         *)
(* narrowest IEEE format in which the toolkit's thresholds 1, 10, 100 and  *)
(* 10000 are exact, so that every product and quotient fits TLC's          *)
(* integers.  An int argument is modelled by the float of the same value;  *)
(* an argument that is no int or float is the value NotNum.                *)
(***************************************************************************)
EXTENDS Integers, Sequences, FiniteSets

VARIABLES
    R, f_I, d_I, lambda_env,  \* the arguments of calculate_ci
    pc,                       \* position of the caller in the call chain
    raised,                   \* the exception calculate_ci raised, or NoError
    ci, log_ci,               \* the pair calculate_ci returned
    minimal,                  \* text returned by interpret_ci_minimal(ci)
    regime,                   \* label returned by classify_regime(log_ci)
    explanation,              \* text returned by explain_regime(log_ci)
    x, y,                     \* arguments of stand-alone classify/explain calls
    px,                       \* position of the stand-alone caller
    labels, texts             \* results of the stand-alone calls on <<x, y>>

vars == <<R, f_I, d_I, lambda_env, pc, raised, ci, log_ci, minimal, regime,
          explanation, x, y, px, labels, texts>>

chainVars == <<R, f_I, d_I, lambda_env, pc, raised, ci, log_ci, minimal,
               regime, explanation>>

probeVars == <<x, y, px, labels, texts>>

----------------------------------------------------------------------------
(* Floating-point data                                                     *)

\* Bits of the significand, hidden bit included.
Precision == 11

\* Exponent of the unit in the last place of the subnormals and of the
\* smallest normals: every finite value is m * 2^e with e >= EMin.
EMin == -24

\* Exponent of the unit in the last place of the largest binade.
EMax == 5

NaN == [k |-> "nan", s |-> 0, m |-> 0, e |-> 0]

Inf(s) == [k |-> "inf", s |-> s, m |-> 0, e |-> 0]

PosInf == Inf(0)

NegInf == Inf(1)

\* The finite value (-1)^s * m * 2^e, in canonical form: 2^(Precision-1) <= m
\* < 2^Precision for a normal number, e = EMin for a subnormal and for zero.
Fin(s, m, e) == [k |-> "fin", s |-> s, m |-> m, e |-> e]

\* An argument that is not an instance of int or float (a str, None, ...).
NotNum == [k |-> "obj", s |-> 0, m |-> 0, e |-> 0]

\* Outcomes of an operation that raises instead of returning a float.
ZeroDivisionError == [k |-> "ZeroDivisionError", s |-> 0, m |-> 0, e |-> 0]

MathDomainError == [k |-> "ValueError: math domain error", s |-> 0, m |-> 0, e |-> 0]

Pow2(n) == 2 ^ n

\* Number of bits of the natural number M < 2^31.
BitLen(M) ==
    IF M = 0 THEN 0
    ELSE CHOOSE n \in 1..31 : Pow2(n - 1) <= M /\ (n = 31 \/ M < Pow2(n))

\* The float nearest to (-1)^s * M * 2^E, ties to even; overflow gives an
\* infinity, underflow a subnormal or a zero.
Round(s, M, E) ==
    IF M = 0 THEN Fin(s, 0, EMin)
    ELSE
      LET n     == BitLen(M)
          shift == IF n - Precision >= EMin - E THEN n - Precision ELSE EMin - E
      IN  IF shift <= 0
          THEN LET k == IF Precision - n <= E - EMin THEN Precision - n ELSE E - EMin
               IN  IF E - k > EMax THEN Inf(s) ELSE Fin(s, M * Pow2(k), E - k)
          ELSE IF shift > 30 THEN Fin(s, 0, EMin)
          ELSE
            LET q    == M \div Pow2(shift)
                r    == M % Pow2(shift)
                half == Pow2(shift - 1)
                up   == r > half \/ (r = half /\ q % 2 = 1)
                q1   == IF up THEN q + 1 ELSE q
                carry == q1 = Pow2(Precision)
                mm   == IF carry THEN Pow2(Precision - 1) ELSE q1
                ee   == IF carry THEN E + shift + 1 ELSE E + shift
            IN  IF mm = 0 THEN Fin(s, 0, EMin)
                ELSE IF ee > EMax THEN Inf(s)
                ELSE Fin(s, mm, ee)

\* The float of the integer n.
FromInt(n) == IF n < 0 THEN Round(1, -n, 0) ELSE Round(0, n, 0)

Zero == FromInt(0)

NegZero == Fin(1, 0, EMin)

One == FromInt(1)

IsZero(a) == a.k = "fin" /\ a.m = 0

Xor(s, t) == (s + t) % 2

\* Position of a float in the total order of the non-NaN floats: the IEEE
\* encoding read as a sign-magnitude integer (-0 and +0 coincide).
Magnitude(a) ==
    IF a.k = "inf" THEN (EMax + 1 - EMin) * Pow2(Precision - 1) + Pow2(Precision - 1)
    ELSE (a.e - EMin) * Pow2(Precision - 1) + a.m

Ord(a) == IF a.s = 1 THEN -Magnitude(a) ELSE Magnitude(a)

IsFloat(a) == a.k \in {"fin", "inf", "nan"}

Ordered(a, b) == a.k \in {"fin", "inf"} /\ b.k \in {"fin", "inf"}

\* Python's comparisons of floats: every comparison with a NaN is False.
Lt(a, b) == Ordered(a, b) /\ Ord(a) < Ord(b)

Gt(a, b) == Ordered(a, b) /\ Ord(a) > Ord(b)

Ge(a, b) == Ordered(a, b) /\ Ord(a) >= Ord(b)

Eq(a, b) == Ordered(a, b) /\ Ord(a) = Ord(b)

\* a * b
Mul(a, b) ==
    IF a.k = "nan" \/ b.k = "nan" THEN NaN
    ELSE IF a.k = "inf" \/ b.k = "inf"
         THEN IF IsZero(a) \/ IsZero(b) THEN NaN ELSE Inf(Xor(a.s, b.s))
    ELSE Round(Xor(a.s, b.s), a.m * b.m, a.e + b.e)

\* The significand of a nonzero finite float scaled into
\* 2^(Precision-1) .. 2^Precision - 1, and the exponent that goes with it.
NormShift(a) == Precision - BitLen(a.m)

\* a / b; Python raises ZeroDivisionError for a zero divisor.
Div(a, b) ==
    IF IsZero(b) THEN ZeroDivisionError
    ELSE IF a.k = "nan" \/ b.k = "nan" THEN NaN
    ELSE IF a.k = "inf" THEN (IF b.k = "inf" THEN NaN ELSE Inf(Xor(a.s, b.s)))
    ELSE IF b.k = "inf" \/ IsZero(a) THEN Fin(Xor(a.s, b.s), 0, EMin)
    ELSE
      LET ma  == a.m * Pow2(NormShift(a))
          ea  == a.e - NormShift(a)
          num == ma * Pow2(Precision + 2)
          q   == num \div b.m
          st  == IF num % b.m = 0 THEN 0 ELSE 1
      IN  Round(Xor(a.s, b.s), 2 * q + st, ea - b.e - (Precision + 3))

\* Fractional bits of the fixed-point logarithms below.
LogScale == 28

\* log10(2) * 2^LogScale, to the nearest integer.
Log10Of2 == 80807124

\* log10(m / 2^(Precision-1)) * 2^LogScale to the nearest integer, for the
\* significands m = 2^(Precision-1) .. 2^Precision - 1, in that order.
Log10Significand ==
  << 0, 113792, 227473, 341044, 454504, 567853, 681093, 794222,
     907242, 1020153, 1132954, 1245646, 1358229, 1470704, 1583070, 1695329,
     1807479, 1919521, 2031456, 2143283, 2255003, 2366617, 2478123, 2589523,
     2700817, 2812004, 2923086, 3034061, 3144932, 3255696, 3366356, 3476911,
     3587361, 3697707, 3807948, 3918085, 4028118, 4138047, 4247873, 4357595,
     4467215, 4576731, 4686144, 4795455, 4904664, 5013770, 5122774, 5231677,
     5340477, 5449177, 5557775, 5666272, 5774668, 5882963, 5991158, 6099253,
     6207247, 6315142, 6422937, 6530632, 6638228, 6745724, 6853122, 6960421,
     7067621, 7174722, 7281725, 7388631, 7495438, 7602147, 7708759, 7815273,
     7921691, 8028011, 8134234, 8240361, 8346391, 8452324, 8558162, 8663904,
     8769549, 8875099, 8980554, 9085913, 9191177, 9296347, 9401421, 9506401,
     9611286, 9716077, 9820774, 9925377, 10029886, 10134302, 10238624, 10342853,
     10446989, 10551032, 10654982, 10758839, 10862604, 10966277, 11069858, 11173347,
     11276743, 11380049, 11483263, 11586385, 11689417, 11792357, 11895207, 11997966,
     12100634, 12203212, 12305700, 12408098, 12510406, 12612625, 12714753, 12816793,
     12918743, 13020604, 13122376, 13224060, 13325654, 13427161, 13528579, 13629909,
     13731151, 13832305, 13933371, 14034350, 14135241, 14236046, 14336763, 14437393,
     14537936, 14638393, 14738763, 14839047, 14939245, 15039356, 15139382, 15239322,
     15339177, 15438946, 15538629, 15638228, 15737741, 15837170, 15936514, 16035773,
     16134948, 16234039, 16333045, 16431967, 16530806, 16629561, 16728232, 16826820,
     16925324, 17023745, 17122084, 17220339, 17318512, 17416602, 17514609, 17612535,
     17710378, 17808139, 17905818, 18003415, 18100931, 18198365, 18295718, 18392990,
     18490180, 18587290, 18684319, 18781267, 18878134, 18974921, 19071628, 19168255,
     19264801, 19361268, 19457655, 19553962, 19650190, 19746339, 19842408, 19938398,
     20034309, 20130142, 20225895, 20321570, 20417167, 20512685, 20608125, 20703487,
     20798771, 20893978, 20989106, 21084157, 21179131, 21274027, 21368846, 21463588,
     21558253, 21652841, 21747353, 21841788, 21936147, 22030429, 22124635, 22218765,
     22312819, 22406797, 22500700, 22594527, 22688278, 22781955, 22875556, 22969082,
     23062533, 23155909, 23249210, 23342437, 23435589, 23528667, 23621670, 23714600,
     23807455, 23900237, 23992945, 24085579, 24178139, 24270627, 24363040, 24455381,
     24547649, 24639843, 24731965, 24824014, 24915990, 25007894, 25099726, 25191485,
     25283172, 25374787, 25466330, 25557801, 25649200, 25740528, 25831785, 25922970,
     26014084, 26105126, 26196098, 26286998, 26377828, 26468587, 26559276, 26649894,
     26740441, 26830919, 26921326, 27011663, 27101930, 27192127, 27282255, 27372313,
     27462301, 27552220, 27642070, 27731851, 27821562, 27911205, 28000778, 28090283,
     28179719, 28269087, 28358386, 28447617, 28536779, 28625874, 28714900, 28803859,
     28892749, 28981572, 29070327, 29159015, 29247635, 29336188, 29424674, 29513093,
     29601445, 29689729, 29777947, 29866099, 29954183, 30042201, 30130153, 30218039,
     30305858, 30393611, 30481298, 30568919, 30656475, 30743965, 30831389, 30918747,
     31006040, 31093268, 31180431, 31267528, 31354561, 31441529, 31528431, 31615269,
     31702043, 31788752, 31875396, 31961976, 32048492, 32134943, 32221331, 32307655,
     32393914, 32480110, 32566243, 32652311, 32738317, 32824258, 32910137, 32995952,
     33081704, 33167393, 33253019, 33338583, 33424083, 33509521, 33594897, 33680210,
     33765460, 33850648, 33935774, 34020838, 34105840, 34190780, 34275658, 34360474,
     34445229, 34529922, 34614554, 34699124, 34783633, 34868080, 34952467, 35036793,
     35121057, 35205261, 35289404, 35373486, 35457508, 35541469, 35625370, 35709210,
     35792990, 35876710, 35960370, 36043970, 36127510, 36210990, 36294410, 36377771,
     36461072, 36544314, 36627496, 36710619, 36793683, 36876688, 36959633, 37042520,
     37125348, 37208117, 37290827, 37373479, 37456072, 37538606, 37621082, 37703500,
     37785860, 37868161, 37950405, 38032590, 38114718, 38196787, 38278799, 38360754,
     38442650, 38524490, 38606272, 38687996, 38769663, 38851273, 38932826, 39014323,
     39095762, 39177144, 39258469, 39339738, 39420950, 39502106, 39583205, 39664248,
     39745234, 39826164, 39907039, 39987857, 40068619, 40149325, 40229975, 40310570,
     40391109, 40471592, 40552020, 40632392, 40712709, 40792971, 40873177, 40953328,
     41033425, 41113466, 41193452, 41273384, 41353260, 41433082, 41512850, 41592562,
     41672221, 41751825, 41831375, 41910870, 41990311, 42069698, 42149031, 42228311,
     42307536, 42386707, 42465825, 42544889, 42623900, 42702857, 42781761, 42860611,
     42939408, 43018151, 43096842, 43175479, 43254064, 43332595, 43411074, 43489500,
     43567873, 43646193, 43724461, 43802677, 43880840, 43958950, 44037009, 44115015,
     44192969, 44270870, 44348720, 44426518, 44504264, 44581958, 44659600, 44737191,
     44814730, 44892218, 44969654, 45047039, 45124372, 45201654, 45278885, 45356065,
     45433193, 45510271, 45587298, 45664274, 45741199, 45818073, 45894897, 45971670,
     46048393, 46125065, 46201687, 46278258, 46354780, 46431251, 46507671, 46584042,
     46660363, 46736634, 46812855, 46889026, 46965148, 47041219, 47117242, 47193214,
     47269137, 47345011, 47420836, 47496611, 47572337, 47648013, 47723641, 47799220,
     47874749, 47950230, 48025662, 48101045, 48176380, 48251665, 48326903, 48402091,
     48477232, 48552323, 48627367, 48702362, 48777309, 48852208, 48927059, 49001861,
     49076616, 49151323, 49225982, 49300593, 49375157, 49449673, 49524141, 49598561,
     49672935, 49747261, 49821539, 49895770, 49969954, 50044091, 50118180, 50192223,
     50266219, 50340167, 50414069, 50487924, 50561732, 50635494, 50709209, 50782877,
     50856499, 50930074, 51003603, 51077085, 51150521, 51223912, 51297255, 51370553,
     51443805, 51517010, 51590170, 51663284, 51736352, 51809374, 51882351, 51955282,
     52028167, 52101007, 52173801, 52246550, 52319253, 52391912, 52464525, 52537092,
     52609615, 52682092, 52754525, 52826912, 52899255, 52971553, 53043805, 53116014,
     53188177, 53260296, 53332370, 53404400, 53476385, 53548326, 53620222, 53692074,
     53763882, 53835646, 53907365, 53979041, 54050672, 54122259, 54193803, 54265302,
     54336758, 54408170, 54479538, 54550863, 54622144, 54693381, 54764575, 54835726,
     54906833, 54977896, 55048917, 55119894, 55190828, 55261719, 55332567, 55403372,
     55474133, 55544852, 55615528, 55686161, 55756752, 55827299, 55897804, 55968267,
     56038687, 56109064, 56179399, 56249691, 56319941, 56390149, 56460315, 56530438,
     56600519, 56670558, 56740555, 56810510, 56880423, 56950295, 57020124, 57089911,
     57159657, 57229361, 57299024, 57368644, 57438224, 57507761, 57577258, 57646713,
     57716126, 57785498, 57854829, 57924119, 57993368, 58062575, 58131742, 58200867,
     58269952, 58338995, 58407998, 58476960, 58545881, 58614761, 58683601, 58752400,
     58821159, 58889877, 58958554, 59027191, 59095788, 59164344, 59232860, 59301336,
     59369772, 59438167, 59506522, 59574838, 59643113, 59711348, 59779544, 59847699,
     59915815, 59983891, 60051927, 60119923, 60187880, 60255798, 60323675, 60391514,
     60459312, 60527072, 60594792, 60662473, 60730114, 60797716, 60865279, 60932803,
     61000288, 61067734, 61135141, 61202509, 61269837, 61337128, 61404379, 61471591,
     61538765, 61605900, 61672996, 61740054, 61807074, 61874054, 61940997, 62007901,
     62074766, 62141593, 62208382, 62275133, 62341845, 62408520, 62475156, 62541754,
     62608314, 62674836, 62741320, 62807767, 62874175, 62940546, 63006879, 63073174,
     63139431, 63205651, 63271833, 63337978, 63404085, 63470155, 63536187, 63602182,
     63668140, 63734060, 63799943, 63865789, 63931598, 63997369, 64063104, 64128801,
     64194462, 64260085, 64325672, 64391221, 64456734, 64522210, 64587649, 64653052,
     64718418, 64783747, 64849040, 64914296, 64979515, 65044698, 65109845, 65174955,
     65240029, 65305067, 65370069, 65435034, 65499963, 65564856, 65629712, 65694533,
     65759318, 65824066, 65888779, 65953456, 66018097, 66082702, 66147272, 66211805,
     66276303, 66340766, 66405192, 66469583, 66533939, 66598259, 66662543, 66726792,
     66791006, 66855185, 66919328, 66983435, 67047508, 67111545, 67175548, 67239515,
     67303447, 67367344, 67431206, 67495033, 67558825, 67622582, 67686304, 67749992,
     67813645, 67877263, 67940846, 68004395, 68067909, 68131388, 68194833, 68258244,
     68321620, 68384961, 68448268, 68511541, 68574779, 68637983, 68701153, 68764289,
     68827391, 68890458, 68953491, 69016490, 69079456, 69142387, 69205284, 69268147,
     69330977, 69393772, 69456534, 69519262, 69581957, 69644617, 69707244, 69769837,
     69832397, 69894923, 69957416, 70019875, 70082301, 70144693, 70207052, 70269378,
     70331670, 70393929, 70456155, 70518347, 70580507, 70642633, 70704726, 70766787,
     70828814, 70890808, 70952769, 71014697, 71076593, 71138455, 71200285, 71262082,
     71323846, 71385578, 71447277, 71508943, 71570577, 71632178, 71693746, 71755282,
     71816786, 71878257, 71939696, 72001102, 72062476, 72123818, 72185128, 72246405,
     72307650, 72368863, 72430044, 72491193, 72552309, 72613394, 72674447, 72735467,
     72796456, 72857413, 72918338, 72979231, 73040093, 73100922, 73161720, 73222486,
     73283221, 73343924, 73404595, 73465235, 73525843, 73586420, 73646966, 73707479,
     73767962, 73828413, 73888833, 73949221, 74009579, 74069905, 74130200, 74190463,
     74250696, 74310897, 74371067, 74431207, 74491315, 74551392, 74611439, 74671454,
     74731439, 74791393, 74851315, 74911208, 74971069, 75030900, 75090700, 75150469,
     75210208, 75269916, 75329593, 75389240, 75448857, 75508443, 75567998, 75627523,
     75687018, 75746483, 75805917, 75865321, 75924694, 75984038, 76043351, 76102634,
     76161887, 76221109, 76280302, 76339465, 76398597, 76457700, 76516773, 76575816,
     76634829, 76693812, 76752765, 76811688, 76870582, 76929446, 76988280, 77047085,
     77105860, 77164605, 77223321, 77282007, 77340664, 77399291, 77457888, 77516457,
     77574995, 77633505, 77691985, 77750436, 77808857, 77867249, 77925612, 77983946,
     78042251, 78100526, 78158772, 78216990, 78275178, 78333337, 78391467, 78449568,
     78507641, 78565684, 78623698, 78681684, 78739641, 78797569, 78855468, 78913338,
     78971180, 79028993, 79086778, 79144533, 79202261, 79259959, 79317629, 79375271,
     79432884, 79490468, 79548025, 79605552, 79663052, 79720523, 79777966, 79835380,
     79892766, 79950124, 80007454, 80064756, 80122029, 80179274, 80236491, 80293681,
     80350842, 80407975, 80465080, 80522157, 80579206, 80636227, 80693221, 80750186 >>

\* math.log10(a): the float nearest to the base-10 logarithm of a.  It
\* raises ValueError (math domain error) unless a > 0 or a is a NaN.
Log10(a) ==
    IF a.k = "nan" THEN NaN
    ELSE IF a.k = "inf" /\ a.s = 0 THEN PosInf
    ELSE IF a.k = "inf" \/ a.s = 1 \/ a.m = 0 THEN MathDomainError
    ELSE
      LET mn == a.m * Pow2(NormShift(a))
          en == a.e - NormShift(a) + (Precision - 1)
          v  == Log10Significand[mn - Pow2(Precision - 1) + 1] + en * Log10Of2
      IN  IF v < 0 THEN Round(1, -v, -LogScale) ELSE Round(0, v, -LogScale)

----------------------------------------------------------------------------
(* The toolkit                                                             *)

\* The value of a variable that holds nothing yet.
None == [k |-> "None", s |-> 0, m |-> 0, e |-> 0]

NoError == [type |-> "none", name |-> "", text |-> ""]

Exception(type, name, text) == [type |-> type, name |-> name, text |-> text]

ParamNames == <<"R", "f_I", "d_I", "lambda_env">>

MustBeNumber == "must be a number."

MustBeNonNegative == "must be non-negative."

DenominatorZero == "Denominator (lambda x d_I) cannot be zero (would cause division by zero)."

\* not isinstance(x, (int, float))
NotANumber(v) == ~IsFloat(v)

\* Mutant of Negative: the sign check is left out.
Negative_Never(v) == FALSE

\* x < 0
Negative(v) == Lt(v, Zero)

\* Mutant of FirstInvalid: the loop reports the last argument it rejects.
LastInvalid(a) ==
    LET bad == {i \in 1..Len(a) : NotANumber(a[i]) \/ Negative(a[i])}
    IN  IF bad = {} THEN 0 ELSE CHOOSE i \in bad : \A j \in bad : i >= j

\* Index of the first argument the validation loop rejects, 0 when it
\* rejects none.
FirstInvalid(a) ==
    LET bad == {i \in 1..Len(a) : NotANumber(a[i]) \/ Negative(a[i])}
    IN  IF bad = {} THEN 0 ELSE CHOOSE i \in bad : \A j \in bad : i <= j

\* Mutant of Denominator: the deletion hazard is left out of the product.
Denominator_NoHazard(al, ad) == al

\* denominator = lambda_env * d_I
Denominator(al, ad) == Mul(al, ad)

\* Mutant of ZeroDenominator: the zero check is left out.
ZeroDenominator_Never(den) == FALSE

\* denominator == 0
ZeroDenominator(den) == Eq(den, Zero)

\* Mutant of LogOf: ci itself is returned in place of its logarithm.
LogOf_Identity(c) == c

\* math.log10(ci) if ci > 0 else float("-inf")
LogOf(c) == IF Gt(c, Zero) THEN Log10(c) ELSE NegInf

calculate_ci(aR, af, ad, al) ==
    LET a   == <<aR, af, ad, al>>
        i   == FirstInvalid(a)
        den == Denominator(al, ad)
        c   == Div(Mul(aR, af), den)
        l   == LogOf(c)
        fail(exc) == [raised |-> exc, ci |-> None, log_ci |-> None]
    IN  IF i # 0
        THEN fail(Exception("ValueError", ParamNames[i],
                            IF NotANumber(a[i]) THEN MustBeNumber
                                                ELSE MustBeNonNegative))
        ELSE IF ZeroDenominator(den)
        THEN fail(Exception("ValueError", "", DenominatorZero))
        ELSE IF c = ZeroDivisionError
        THEN fail(Exception("ZeroDivisionError", "", "float division by zero"))
        ELSE IF l = MathDomainError
        THEN fail(Exception("ValueError", "", "math domain error"))
        ELSE [raised |-> NoError, ci |-> c, log_ci |-> l]

Effective == "The system is on a path to persist and potentially grow (effective continuity)."

Equilibrium == "The system is in a fragile equilibrium; small changes can shift it toward growth or collapse."

CollapseRisk == "The system is at risk of collapse or extinction in expectation (continuity threshold not met)."

InvalidCI == "Invalid CI value."

interpret_ci_minimal(c) ==
    IF Gt(c, One) THEN Effective
    ELSE IF Eq(c, One) THEN Equilibrium
    ELSE IF Lt(c, One) THEN CollapseRisk
    ELSE InvalidCI

\* Mutant of classify_regime: the lower bounds are strict.
classify_regime_Strict(l) ==
    IF Gt(l, FromInt(4)) THEN "super_persistent"
    ELSE IF Gt(l, FromInt(2)) THEN "strong"
    ELSE IF Gt(l, FromInt(1)) THEN "fragile"
    ELSE "collapse_gravity"

classify_regime(l) ==
    IF Ge(l, FromInt(4)) THEN "super_persistent"
    ELSE IF Ge(l, FromInt(2)) THEN "strong"
    ELSE IF Ge(l, FromInt(1)) THEN "fragile"
    ELSE "collapse_gravity"

SuperText == "System exhibits very strong continuity (super_persistent): it is structurally robust and highly likely to persist barring extreme, nonlocal shocks."

StrongText == "System has strong continuity: it is generally robust and resilient, but still worth monitoring for long-term drift or accumulating stress."

FragileText == "System is in the fragile continuity band: continuity may hold for some time, but relatively modest shocks or parameter changes can push it toward collapse or recovery."

CollapseText == "System is in the collapse-gravity regime: without significant intervention to improve reproduction, fidelity, or reduce hazard/volatility, continuity is unlikely to be sustained."

\* Mutant of explain_regime: the text is chosen by comparing log_ci again,
\* with strict bounds, instead of by the label.
explain_regime_Direct(l) ==
    IF Gt(l, FromInt(4)) THEN SuperText
    ELSE IF Gt(l, FromInt(2)) THEN StrongText
    ELSE IF Gt(l, FromInt(1)) THEN FragileText
    ELSE CollapseText

explain_regime(l) ==
    LET r == classify_regime(l)
    IN  IF r = "super_persistent" THEN SuperText
        ELSE IF r = "strong" THEN StrongText
        ELSE IF r = "fragile" THEN FragileText
        ELSE CollapseText

----------------------------------------------------------------------------
(* Arguments the callers pass                                              *)

\* Largest power of ten among the sampled arguments.
MaxPow == 4

\* Largest integer among the sampled arguments of classify_regime.
MaxLog == 5

\* Predecessors of each sampled power of ten that are sampled with it.
MaxPred == 3

RECURSIVE Pow10(_)
Pow10(n) == IF n = 0 THEN One ELSE Mul(Pow10(n - 1), FromInt(10))

\* The largest finite float.
Huge == Fin(0, Pow2(Precision) - 1, EMax)

\* The smallest positive normal float.
Tiny == Fin(0, Pow2(Precision - 1), EMin)

\* The float next to the positive float a toward zero.
Pred(a) ==
    IF a.k = "inf" THEN Huge
    ELSE IF a.m = Pow2(Precision - 1) /\ a.e > EMin
         THEN Fin(a.s, Pow2(Precision) - 1, a.e - 1)
    ELSE Fin(a.s, a.m - 1, a.e)

RECURSIVE PredN(_, _)
PredN(a, n) == IF n = 0 THEN a ELSE PredN(Pred(a), n - 1)

MinusOne == FromInt(-1)

\* The arguments of the call of the entry point: 2.5, 0.8, 0.1 and 1.2.
DemoR == Div(FromInt(25), FromInt(10))

DemoF == Div(FromInt(8), FromInt(10))

DemoD == Div(One, FromInt(10))

DemoL == Div(FromInt(12), FromInt(10))

RSamples ==
    {NotNum, NaN, PosInf, MinusOne, Zero, NegZero, Huge, DemoR}
        \cup {PredN(Pow10(n), j) : n \in 0..MaxPow, j \in 0..MaxPred}

FSamples == {NotNum, MinusOne, NaN, Zero, One, PosInf, Huge, DemoF}

DSamples == {NotNum, NegInf, Zero, Tiny, One, Huge, DemoD}

LSamples == {NotNum, MinusOne, NaN, Zero, Tiny, One, Huge, PosInf, DemoL}

LogSamples ==
    {NaN, NegInf, PosInf, Zero, MinusOne}
        \cup {PredN(FromInt(n), j) : n \in 1..MaxLog, j \in 0..1}

----------------------------------------------------------------------------
(* The call chain of the module's entry point: calculate_ci, then          *)
(* interpret_ci_minimal(ci), classify_regime(log_ci), explain_regime.      *)

Init ==
    /\ R \in RSamples
    /\ f_I \in FSamples
    /\ d_I \in DSamples
    /\ lambda_env \in LSamples
    /\ pc = "start"
    /\ raised = NoError
    /\ ci = None
    /\ log_ci = None
    /\ minimal = ""
    /\ regime = ""
    /\ explanation = ""
    /\ x = None
    /\ y = None
    /\ px = "idle"
    /\ labels = <<>>
    /\ texts = <<>>

Calculate ==
    /\ pc = "start"
    /\ LET r == calculate_ci(R, f_I, d_I, lambda_env)
       IN  /\ raised' = r.raised
           /\ ci' = r.ci
           /\ log_ci' = r.log_ci
           /\ pc' = IF r.raised = NoError THEN "calculated" ELSE "error"
    /\ UNCHANGED <<R, f_I, d_I, lambda_env, minimal, regime, explanation>>
    /\ UNCHANGED probeVars

Interpret ==
    /\ pc = "calculated"
    /\ minimal' = interpret_ci_minimal(ci)
    /\ pc' = "interpreted"
    /\ UNCHANGED <<R, f_I, d_I, lambda_env, raised, ci, log_ci, regime, explanation>>
    /\ UNCHANGED probeVars

Classify ==
    /\ pc = "interpreted"
    /\ regime' = classify_regime(log_ci)
    /\ pc' = "classified"
    /\ UNCHANGED <<R, f_I, d_I, lambda_env, raised, ci, log_ci, minimal, explanation>>
    /\ UNCHANGED probeVars

Explain ==
    /\ pc = "classified"
    /\ explanation' = explain_regime(log_ci)
    /\ pc' = "explained"
    /\ UNCHANGED <<R, f_I, d_I, lambda_env, raised, ci, log_ci, minimal, regime>>
    /\ UNCHANGED probeVars

Next == Calculate \/ Interpret \/ Classify \/ Explain

Spec == Init /\ [][Next]_vars

----------------------------------------------------------------------------
(* Stand-alone calls of classify_regime and explain_regime on arbitrary    *)
(* floats x and y.                                                         *)

InitRegime ==
    /\ R = None
    /\ f_I = None
    /\ d_I = None
    /\ lambda_env = None
    /\ pc = "idle"
    /\ raised = NoError
    /\ ci = None
    /\ log_ci = None
    /\ minimal = ""
    /\ regime = ""
    /\ explanation = ""
    /\ x \in LogSamples
    /\ y \in LogSamples
    /\ px = "start"
    /\ labels = <<>>
    /\ texts = <<>>

ClassifyBoth ==
    /\ px = "start"
    /\ labels' = <<classify_regime(x), classify_regime(y)>>
    /\ px' = "classified"
    /\ UNCHANGED <<x, y, texts>>
    /\ UNCHANGED chainVars

ExplainBoth ==
    /\ px = "classified"
    /\ texts' = <<explain_regime(x), explain_regime(y)>>
    /\ px' = "explained"
    /\ UNCHANGED <<x, y, labels>>
    /\ UNCHANGED chainVars

NextRegime == ClassifyBoth \/ ExplainBoth

SpecRegime == InitRegime /\ [][NextRegime]_vars

----------------------------------------------------------------------------
(* Properties                                                              *)

Args == <<R, f_I, d_I, lambda_env>>

\* calculate_ci has been called.
Called == pc \in {"calculated", "interpreted", "classified", "explained", "error"}

\* calculate_ci returned a pair.
Returned == pc \in {"calculated", "interpreted", "classified", "explained"}

\* classify_regime(log_ci) has been called after calculate_ci returned.
Classified == pc \in {"classified", "explained"}

\* The two kinds of error of the specification, told apart by the message.
InvalidInput ==
    raised.type = "ValueError" /\ raised.text \in {MustBeNumber, MustBeNonNegative}

DivisionByZero == raised.type = "ValueError" /\ raised.text = DenominatorZero

\* v is no int or float, or is a number below zero.
Offending(v) ==
    \/ v.k = "obj"
    \/ v.k = "inf" /\ v.s = 1
    \/ v.k = "fin" /\ v.s = 1 /\ v.m > 0

NonNegativeInputs ==
    Ge(R, Zero) /\ Ge(f_I, Zero) /\ Ge(d_I, Zero) /\ Ge(lambda_env, Zero)

Ten == FromInt(10)

Hundred == FromInt(100)

TenThousand == FromInt(10000)

RegimeLabels == {"super_persistent", "strong", "fragile", "collapse_gravity"}

C1_Pre ==
    Called /\ Ge(R, Zero) /\ Ge(f_I, Zero) /\ Gt(d_I, Zero) /\ Gt(lambda_env, Zero)

C1_Post ==
    /\ Returned
    /\ ci = Div(Mul(R, f_I), Mul(lambda_env, d_I))
    /\ (Gt(ci, Zero) => log_ci = Log10(ci))

C4_AsStated ==
    /\ Called
    /\ NonNegativeInputs
    /\ (Eq(R, Zero) \/ Eq(f_I, Zero))
    /\ ~Eq(Mul(lambda_env, d_I), Zero)
    => /\ Returned
       /\ Eq(ci, Zero)
       /\ log_ci = NegInf
       /\ (Classified => regime = "collapse_gravity")

\* The band of the extended real v, by its position among the floats.
BandOf(v) ==
    IF Ord(v) >= Ord(FromInt(4)) THEN "super_persistent"
    ELSE IF Ord(v) >= Ord(FromInt(2)) THEN "strong"
    ELSE IF Ord(v) >= Ord(One) THEN "fragile"
    ELSE "collapse_gravity"

\* C5: classify_regime is total over the extended reals and returns
\* super_persistent iff log_ci >= 4, strong iff 2 <= log_ci < 4, fragile iff
\* 1 <= log_ci < 2 and collapse_gravity iff log_ci < 1; the boundaries 4, 2
\* and 1 belong to the upper band.
C5_Formula ==
    px \in {"classified", "explained"} =>
        \A i \in 1..2 :
            LET v == <<x, y>>[i]
            IN  /\ labels[i] \in RegimeLabels
                /\ (v.k # "nan" => labels[i] = BandOf(v))
                /\ (v = FromInt(4) => labels[i] = "super_persistent")
                /\ (v = FromInt(2) => labels[i] = "strong")
                /\ (v = One => labels[i] = "fragile")
                /\ (v = NegInf => labels[i] = "collapse_gravity")

C5_Witness ==
    /\ px = "classified"
    /\ x = FromInt(4) /\ labels[1] = "super_persistent"
    /\ y = Pred(FromInt(4)) /\ labels[2] = "strong"

\* C6: for every CI a successful calculate_ci returned, interpret_ci_minimal
\* returns the continuity-effective message when CI > 1, the
\* fragile-equilibrium message when CI = 1 and the collapse-risk message
\* when CI < 1, and never the "Invalid CI value." fallback.
C6_AsStated ==
    pc \in {"interpreted", "classified", "explained"} =>
        /\ minimal \in {Effective, Equilibrium, CollapseRisk}
        /\ (minimal = Effective <=> Gt(ci, One))
        /\ (minimal = Equilibrium <=> Eq(ci, One))
        /\ (minimal = CollapseRisk <=> Lt(ci, One))

\* C7: explain_regime never fails and its text is determined by the label
\* of classify_regime: x and y with the same label get the same text.
C7_Formula ==
    px = "explained" =>
        /\ \A i \in 1..2 : texts[i] \in {SuperText, StrongText, FragileText, CollapseText}
        /\ (labels[1] = labels[2] => texts[1] = texts[2])

C7_Witness ==
    /\ px = "explained"
    /\ x # y
    /\ labels[1] = labels[2]
    /\ labels[1] = "super_persistent"
    /\ texts[1] = texts[2]

\* C8: every pair (CI, log_CI) a successful calculate_ci returned has
\* CI >= 0 and CI not +infinity, log_CI = log10(CI) when CI > 0, and
\* log_CI = -infinity exactly when CI = 0.
C8_AsStated ==
    Returned =>
        /\ Ge(ci, Zero)
        /\ ci # PosInf
        /\ (Gt(ci, Zero) => log_ci = Log10(ci))
        /\ (log_ci = NegInf <=> Eq(ci, Zero))

\* C9: validation precedes the zero-denominator check and runs in the
\* order R, f_I, d_I, lambda_env: with an offending input calculate_ci
\* fails with InvalidInput, also when the denominator is zero, and the
\* error names the first offending input in that order.
C9_Formula ==
    \A i \in 1..4 :
        Called /\ Offending(Args[i]) /\ (\A j \in 1..(i - 1) : ~Offending(Args[j])) =>
            /\ InvalidInput
            /\ ~DivisionByZero
            /\ raised.name = ParamNames[i]

C9_Witness ==
    /\ pc = "error"
    /\ ~Offending(R)
    /\ Offending(f_I)
    /\ Eq(d_I, Zero)
    /\ Offending(lambda_env)
    /\ InvalidInput
    /\ raised.name = "f_I"

C10_Consequences ==
    /\ (minimal \in {Equilibrium, CollapseRisk} => regime = "collapse_gravity")
    /\ (Gt(ci, One) /\ Lt(ci, Ten) =>
            minimal = Effective /\ regime = "collapse_gravity")

\* The call of the entry point.
DemoCall == R = DemoR /\ f_I = DemoF /\ d_I = DemoD /\ lambda_env = DemoL

\* C10 as stated, for a returned CI that is a number: classify_regime(log_CI)
\* is super_persistent iff CI >= 10000, strong iff 100 <= CI < 10000, fragile
\* iff 10 <= CI < 100 and collapse_gravity iff CI < 10; a CI <= 1 is
\* collapse_gravity and a CI with 1 < CI < 10 is continuity-effective yet
\* collapse_gravity.
C10_AsStated ==
    Classified /\ ci # NaN =>
        /\ (regime = "super_persistent" <=> Ge(ci, TenThousand))
        /\ (regime = "strong" <=> Ge(ci, Hundred) /\ Lt(ci, TenThousand))
        /\ (regime = "fragile" <=> Ge(ci, Ten) /\ Lt(ci, Hundred))
        /\ (regime = "collapse_gravity" <=> Lt(ci, Ten))
        /\ C10_Consequences

\* C10 amended: the bands of CI are at the powers of ten up to the rounding
\* of log10.  CI >= 10000 is super_persistent, 100 <= CI < 10000 is strong,
\* 10 <= CI < 100 is fragile and CI < 10 is collapse_gravity, except that a
\* CI one or two units in the last place below 10000, whose log10 rounds to
\* 4, is super_persistent, and a CI one unit in the last place below 100,
\* whose log10 rounds to 2, is strong; a NaN CI is collapse_gravity.  The
\* two consequences are as stated, and the call of the entry point (CI about
\* 16.67) is fragile and continuity-effective.
C10_Formula ==
    Classified =>
        /\ (regime = "super_persistent" <=> Ge(ci, PredN(TenThousand, 2)))
        /\ (regime = "strong" <=>
                Ge(ci, Pred(Hundred)) /\ Lt(ci, PredN(TenThousand, 2)))
        /\ (regime = "fragile" <=> Ge(ci, Ten) /\ Lt(ci, Pred(Hundred)))
        /\ (regime = "collapse_gravity" <=> Lt(ci, Ten) \/ ci = NaN)
        /\ C10_Consequences
        /\ (DemoCall => regime = "fragile" /\ minimal = Effective)

C10_Witness ==
    /\ pc = "explained"
    /\ ci = Pred(TenThousand)
    /\ regime = "super_persistent"
    /\ minimal = Effective

====
